---- MODULE Spec2Model ----
(***************************************************************************)
(* Model of the credential / session core of the API:                      *)
(*   internal/auth  (AuthService: Register, Login, RefreshToken,           *)
(*                   generateTokenPair, VerifyJWT; AuthHandler)            *)
(*   internal/middleware (ExtractBearerToken, ExtractUserIDFromJWT,        *)
(*                   UserAuthMiddleware)                                   *)
(*   internal/errs  (DomainError, ExtractDomainError, RespondWithError)    *)
(*   the sqlc queries on users and refresh_tokens and their schema.        *)
(*                                                                         *)
(* Every service call is a sequence of database statements; a statement    *)
(* is atomic, a call is not, so each caller has a position (pc) and the    *)
(* statements of concurrent calls interleave.  Time is counted in days.    *)
(***************************************************************************)
EXTENDS Integers, Sequences, FiniteSets, TLC

\* ------------------------------------------------------------------ bounds
\* Service calls (Register, Login, RefreshToken) started in one behaviour.
MaxCalls == 3
\* Last day the clock reaches.
MaxTime == 30

\* Concurrent callers of the service.
Procs == {1, 2}

\* Two spellings of one address: to the code they are two strings.
Emails == {"a@x.com", "A@x.com"}
Names == {"A"}
Passwords == {"pw123456", "wrongpassword"}

\* ------------------------------------------------------- program constants
\* generateTokenPair: access token lifetime, 7 * 24 * time.Hour, in days.
AccessTTL == 7
\* generateTokenPair: refresh token lifetime, 30 * 24 * time.Hour, in days.
RefreshTTL == 30
\* net/http status codes used by the errs constructors.
StatusBadRequest == 400
StatusUnauthorized == 401
StatusNotFound == 404
StatusInternalServerError == 500
StatusOK == 200

\* The amounts the clock advances by: one access or one refresh lifetime, so
\* that both expiry instants are reached exactly.
TickSteps == {AccessTTL, RefreshTTL}

\* AuthService.jwtSecret, and a secret the service does not hold.
JwtSecret == "server-secret"
OtherSecret == "other-secret"

\* A refresh token string no row holds ("invalid-token" in the tests).
UnknownToken == 0

VARIABLES
    now,            \* the clock: time.Now() / NOW(), in days
    users,          \* table users: set of rows
    userSeq,        \* users.id SERIAL: last value drawn
    refreshTokens,  \* table refresh_tokens: set of rows
    tokenSeq,       \* refresh_tokens.id SERIAL: last value drawn
    calls,          \* per caller: the call in progress, its locals, its result
    started,        \* service calls started so far
    jwts,           \* access tokens returned to callers so far
    rotated,        \* <<old, new>> for every pair RefreshToken returned
    registered,     \* (email, password, id) of every Register that succeeded
    faulted,        \* some collaborator call (db, bcrypt, rand, signing) failed
    gate,           \* the last request through the authentication gate
    orphaned        \* refresh token values whose rows went with a deleted user

vars == <<now, users, userSeq, refreshTokens, tokenSeq, calls, started, jwts,
          rotated, registered, faulted, gate, orphaned>>

\* ------------------------------------------------------------- errs package
DomainError(key, message, status) ==
    [kind |-> "domain", key |-> key, message |-> message, status |-> status]

\* fmt.Errorf("...: %w", err): an error with no DomainError in its chain.
RawError(message) ==
    [kind |-> "raw", key |-> "", message |-> message, status |-> 0]

NoErr == [kind |-> "nil", key |-> "", message |-> "", status |-> 0]

ErrKeyInternalError == "internal_error"
ErrKeyAuthInvalidToken == "auth.invalid_token"
ErrKeyAuthUserNotFound == "auth.user_not_found"
ErrKeyAuthInvalidCredentials == "auth.invalid_credentials"
ErrKeyAuthTokenRequired == "auth.token_required"
ErrKeyAuthUserExists == "auth.user_exists"

NewUnauthorizedError(key, message) == DomainError(key, message, StatusUnauthorized)
NewNotFoundError(key, message) == DomainError(key, message, StatusNotFound)
NewBadRequestError(key, message) == DomainError(key, message, StatusBadRequest)

\* WrapDomainError keeps the cause in Err; the cause is not part of the
\* response, so the model keeps key, message and status.
WrapDomainError(key, message, status, cause) == DomainError(key, message, status)

ErrInvalidCredentials ==
    NewUnauthorizedError(ErrKeyAuthInvalidCredentials, "Invalid email or password")
ErrUserNotFound == NewNotFoundError(ErrKeyAuthUserNotFound, "User not found")
ErrInvalidToken == NewUnauthorizedError(ErrKeyAuthInvalidToken, "Invalid token")
ErrTokenExpired == NewUnauthorizedError(ErrKeyAuthInvalidToken, "Token expired")
ErrUserAlreadyExists ==
    NewBadRequestError(ErrKeyAuthUserExists, "User with this email already exists")
ErrUserNotAuthenticated ==
    NewUnauthorizedError(ErrKeyAuthTokenRequired, "User not authenticated")

\* Variant: the internal error carries the text of its cause.
ExtractDomainError_LeaksCause(err) ==
    IF err.kind = "domain"
    THEN err
    ELSE DomainError(ErrKeyInternalError, err.message,
                     StatusInternalServerError)

\* ExtractDomainError: a DomainError in the chain is returned as it is, any
\* other error becomes the opaque internal error.
ExtractDomainError(err) ==
    IF err.kind = "domain"
    THEN err
    ELSE DomainError(ErrKeyInternalError, "Something went wrong",
                     StatusInternalServerError)

\* RespondWithError: the JSON body and status written for an error.
RespondWithError(err) ==
    LET d == ExtractDomainError(err)
    IN  [status |-> d.status, error_key |-> d.key, message |-> d.message]

\* ------------------------------------------------------------------ bcrypt
\* Variant: the password is stored as it came.
StorePlaintext(password) == <<"plain", password>>

\* GenerateFromPassword / CompareHashAndPassword: the hash is opaque and a
\* password matches exactly the hash made from it.
NoHash == <<>>
GenerateFromPassword(password) == <<"bcrypt", password>>
CompareHashAndPassword(hash, password) == hash = <<"bcrypt", password>>

\* ------------------------------------------------------------ table users
NoUser == [id |-> 0, email |-> "", name |-> "", password |-> NoHash]

\* SELECT * FROM users WHERE email = $1 LIMIT 1
GetUserByEmail(email) == {u \in users : u.email = email}

\* Variant: the lookup ignores the id.
GetUserByID_AnyUser(id) == users

\* SELECT * FROM users WHERE id = $1 LIMIT 1
GetUserByID(id) == {u \in users : u.id = id}

\* LOWER(email), the expression of idx_users_email_lower.
LOWER(email) == IF email = "A@x.com" THEN "a@x.com" ELSE email

\* Variant: the column has no unique constraint.
NoUniqueConstraint(email) == FALSE

\* email VARCHAR(255) NOT NULL UNIQUE
UsersUniqueViolation(email) == \E u \in users : u.email = email

\* ---------------------------------------------------- table refresh_tokens
NoRow == [id |-> 0, user_id |-> 0, token |-> UnknownToken, expires_at |-> 0,
          is_revoked |-> FALSE]

\* Variant: a token is still found at the instant it expires.
GetRefreshToken_ExpiryInclusive(token) ==
    {r \in refreshTokens :
        r.token = token /\ r.expires_at >= now /\ r.is_revoked = FALSE}

\* SELECT * FROM refresh_tokens
\* WHERE token = $1 AND expires_at > NOW() AND is_revoked = FALSE LIMIT 1
GetRefreshToken(token) ==
    {r \in refreshTokens :
        r.token = token /\ r.expires_at > now /\ r.is_revoked = FALSE}

\* Variant: the update matches no row.
RevokeRefreshToken_NoRow(token) == refreshTokens

\* Variant: revoking removes the row.
RevokeRefreshToken_Deletes(token) == {r \in refreshTokens : r.token # token}

\* UPDATE refresh_tokens SET is_revoked = TRUE WHERE token = $1
RevokeRefreshToken(token) ==
    {IF r.token = token THEN [r EXCEPT !.is_revoked = TRUE] ELSE r :
        r \in refreshTokens}

\* Variant: the column has no unique constraint.
NoTokenUniqueConstraint(token) == FALSE

\* token VARCHAR(512) NOT NULL UNIQUE
TokensUniqueViolation(token) == \E r \in refreshTokens : r.token = token

\* Variant: storing a token revokes the user's earlier ones.
CreateRefreshToken_SingleSession(row) ==
    IF \A u \in users : u.id # row.user_id
    THEN [err |-> "23503", rows |-> refreshTokens]
    ELSE IF TokensUniqueViolation(row.token)
         THEN [err |-> "23505", rows |-> refreshTokens]
         ELSE [err |-> "",
               rows |-> {IF r.user_id = row.user_id
                         THEN [r EXCEPT !.is_revoked = TRUE] ELSE r :
                            r \in refreshTokens} \cup {row}]

\* INSERT INTO refresh_tokens (user_id, token, expires_at) ... RETURNING *
\* under the constraints of the table: user_id REFERENCES users(id) and
\* token UNIQUE.  The SQLSTATE of the error ("" for none) and the table
\* after the statement.
CreateRefreshToken(row) ==
    IF \A u \in users : u.id # row.user_id
    THEN [err |-> "23503", rows |-> refreshTokens]
    ELSE IF TokensUniqueViolation(row.token)
         THEN [err |-> "23505", rows |-> refreshTokens]
         ELSE [err |-> "", rows |-> refreshTokens \cup {row}]

\* The refresh token values handed out so far: those stored and those whose
\* rows went with their user.
IssuedValues == {r.token : r \in refreshTokens} \cup orphaned

\* crypto/rand.Read + hex.EncodeToString: 32 random bytes.  The values are
\* opaque; among the values never handed out, the least stands for all.
FreshTokenValue ==
    CHOOSE v \in 1..(Cardinality(IssuedValues) + 1) :
        /\ v \notin IssuedValues
        /\ \A w \in 1..(v - 1) : w \in IssuedValues

\* ------------------------------------------------------------ access tokens
\* A token string: empty, not a JWT at all, or header.claims.signature.
EmptyString ==
    [fmt |-> "empty", alg |-> "", user_id |-> 0, email |-> "", iat |-> 0,
     exp |-> 0, sig |-> <<>>]
Garbage ==
    [fmt |-> "garbage", alg |-> "", user_id |-> 0, email |-> "", iat |-> 0,
     exp |-> 0, sig |-> <<>>]

\* HMAC-SHA256 over header and claims: equal exactly for equal key and input.
HMAC(secret, alg, user_id, email, iat, exp) ==
    <<secret, alg, user_id, email, iat, exp>>

\* jwt.NewWithClaims(jwt.SigningMethodHS256, claims).SignedString(secret)
SignedString(secret, user_id, email, iat, exp) ==
    [fmt |-> "jwt", alg |-> "HS256", user_id |-> user_id, email |-> email,
     iat |-> iat, exp |-> exp,
     sig |-> HMAC(secret, "HS256", user_id, email, iat, exp)]

NoPair == [access_token |-> EmptyString, refresh_token |-> UnknownToken]

\* jwt signing methods: those of type *jwt.SigningMethodHMAC, and others.
HMACMethods == {"HS256", "HS384", "HS512"}

\* jwt.ParseWithClaims with the key function of VerifyJWT (golang-jwt v5):
\* split and decode, ask the key function for the key (it refuses a method
\* that is not HMAC), verify the signature, then validate the claims; exp is
\* valid while now is before it.
ParseWithClaims(tok) ==
    IF tok.fmt # "jwt" THEN "ErrTokenMalformed"
    ELSE IF tok.alg \notin HMACMethods THEN "ErrTokenUnverifiable"
    ELSE IF tok.sig # HMAC(JwtSecret, tok.alg, tok.user_id, tok.email,
                           tok.iat, tok.exp)
         THEN "ErrTokenSignatureInvalid"
    ELSE IF ~(now < tok.exp) THEN "ErrTokenExpired"
    ELSE "ok"

\* Variant: an expired token is named as such.
VerifyError_NamesExpiry(libErr) ==
    IF libErr = "ErrTokenExpired" THEN ErrTokenExpired ELSE ErrInvalidToken

\* The error VerifyJWT returns for a library error.
VerifyError(libErr) == ErrInvalidToken

\* Variant: a token is accepted only while its user has a row.
VerifyJWT_ChecksUser(tok) ==
    LET e == ParseWithClaims(tok)
    IN  IF e # "ok" \/ \A u \in users : u.id # tok.user_id
        THEN [token |-> EmptyString, valid |-> FALSE, err |-> VerifyError(e)]
        ELSE [token |-> tok, valid |-> TRUE, err |-> NoErr]

\* AuthService.VerifyJWT: (token, nil) or (nil, error).
VerifyJWT(tok) ==
    LET e == ParseWithClaims(tok)
    IN  IF e # "ok"
        THEN [token |-> EmptyString, valid |-> FALSE, err |-> VerifyError(e)]
        ELSE [token |-> tok, valid |-> TRUE, err |-> NoErr]

\* ------------------------------------------------------ middleware package
\* The Authorization header value is prefix followed by rest; the header is
\* the empty string when both are empty.
NoHeader == [prefix |-> "", rest |-> EmptyString]

\* ExtractBearerToken: ("", false) for an empty header, the text after
\* "Bearer " when the header has that prefix, the whole header otherwise.
ExtractBearerToken(authHeader) ==
    IF authHeader = NoHeader
    THEN [token |-> EmptyString, ok |-> FALSE]
    ELSE IF authHeader.prefix = "Bearer "
         THEN [token |-> authHeader.rest, ok |-> TRUE]
         ELSE [token |-> authHeader.rest, ok |-> TRUE]

\* Variant: the Authorization header is read first.
RequestToken_HeaderFirst(query, authHeader) ==
    IF ExtractBearerToken(authHeader).token = EmptyString
    THEN query
    ELSE ExtractBearerToken(authHeader).token

\* The token string ExtractUserIDFromJWT verifies: the query parameter
\* "token" when it is not empty, the Authorization header otherwise.
RequestToken(query, authHeader) ==
    IF query = EmptyString
    THEN ExtractBearerToken(authHeader).token
    ELSE query

\* A *int32: nil, or a pointer to a value.
NilID == [nil |-> TRUE, value |-> 0]
PtrID(v) == [nil |-> FALSE, value |-> v]

\* Variant: the empty token string is verified like any other.
ExtractUserIDFromJWT_NoNilCase(query, authHeader) ==
    LET tokenString == RequestToken(query, authHeader)
        v == VerifyJWT(tokenString)
    IN  IF v.err # NoErr
        THEN [userID |-> NilID,
              err |-> WrapDomainError(ErrKeyAuthInvalidToken,
                          "Invalid or expired token", StatusUnauthorized,
                          v.err)]
        ELSE [userID |-> PtrID(v.token.user_id), err |-> NoErr]

\* ExtractUserIDFromJWT: (nil, nil) without a token, (nil, error) for a
\* token VerifyJWT rejects, (&claims.UserID, nil) otherwise.
ExtractUserIDFromJWT(query, authHeader) ==
    LET tokenString == RequestToken(query, authHeader)
        v == VerifyJWT(tokenString)
    IN  IF tokenString = EmptyString
        THEN [userID |-> NilID, err |-> NoErr]
        ELSE IF v.err # NoErr
             THEN [userID |-> NilID,
                   err |-> WrapDomainError(ErrKeyAuthInvalidToken,
                               "Invalid or expired token", StatusUnauthorized,
                               v.err)]
             ELSE [userID |-> PtrID(v.token.user_id), err |-> NoErr]

NoResponse == [status |-> 0, error_key |-> "", message |-> ""]

\* Variant: the error is answered but the chain is not aborted.
UserAuthMiddleware_NoAbort(query, authHeader) ==
    LET x == ExtractUserIDFromJWT(query, authHeader)
    IN  IF x.err # NoErr
        THEN [aborted |-> FALSE, response |-> RespondWithError(x.err),
              user_id |-> NilID, next |-> TRUE]
        ELSE IF x.userID.nil
             THEN [aborted |-> TRUE,
                   response |-> RespondWithError(ErrUserNotAuthenticated),
                   user_id |-> NilID, next |-> FALSE]
             ELSE [aborted |-> FALSE, response |-> NoResponse,
                   user_id |-> x.userID, next |-> TRUE]

\* UserAuthMiddleware: answer and abort on an error or on no identity,
\* otherwise set user_id in the context and run the next handler.
UserAuthMiddleware(query, authHeader) ==
    LET x == ExtractUserIDFromJWT(query, authHeader)
    IN  IF x.err # NoErr
        THEN [aborted |-> TRUE, response |-> RespondWithError(x.err),
              user_id |-> NilID, next |-> FALSE]
        ELSE IF x.userID.nil
             THEN [aborted |-> TRUE,
                   response |-> RespondWithError(ErrUserNotAuthenticated),
                   user_id |-> NilID, next |-> FALSE]
             ELSE [aborted |-> FALSE, response |-> NoResponse,
                   user_id |-> x.userID, next |-> TRUE]

\* Variant: a rejected token ends the request as in UserAuthMiddleware.
OptionalUserAuthMiddleware_AbortsInvalid(query, authHeader) ==
    LET x == ExtractUserIDFromJWT(query, authHeader)
    IN  IF x.err # NoErr
        THEN [aborted |-> TRUE, response |-> RespondWithError(x.err),
              user_id |-> NilID, next |-> FALSE]
        ELSE [aborted |-> FALSE, response |-> NoResponse,
              user_id |-> x.userID, next |-> TRUE]

\* OptionalUserAuthMiddleware: set user_id in the context when the token is
\* there and accepted, and run the next handler in every case.
OptionalUserAuthMiddleware(query, authHeader) ==
    LET x == ExtractUserIDFromJWT(query, authHeader)
    IN  IF x.err = NoErr /\ ~x.userID.nil
        THEN [aborted |-> FALSE, response |-> NoResponse,
              user_id |-> x.userID, next |-> TRUE]
        ELSE [aborted |-> FALSE, response |-> NoResponse,
              user_id |-> NilID, next |-> TRUE]

\* ------------------------------------------------------------- AuthHandler
\* Variant: the response carries the whole row.
UserResponse_WholeRow(user) == user

\* UserResponse: the user data a response carries.
UserResponse(user) == [id |-> user.id, email |-> user.email, name |-> user.name]

\* What a handler writes: the status, the error body or the data.
NoAnswer ==
    [status |-> 0, error_key |-> "", message |-> "",
     access_token |-> EmptyString, refresh_token |-> UnknownToken,
     user |-> UserResponse(NoUser)]

\* A response written by RespondWithError, by a handler or by the gate.
ErrorAnswer(response) ==
    [NoAnswer EXCEPT !.status = response.status,
                     !.error_key = response.error_key,
                     !.message = response.message]

\* AuthHandler.Register and AuthHandler.Login after the service call:
\* RespondWithError(err), or 200 with the pair and the UserResponse.
AuthHandlerRegister(result) ==
    IF result.err # NoErr
    THEN ErrorAnswer(RespondWithError(result.err))
    ELSE [NoAnswer EXCEPT !.status = StatusOK,
                          !.access_token = result.pair.access_token,
                          !.refresh_token = result.pair.refresh_token,
                          !.user = UserResponse(result.user)]

AuthHandlerLogin(result) == AuthHandlerRegister(result)

\* AuthHandler.RefreshToken after the service call: the pair only.
AuthHandlerRefreshToken(result) ==
    IF result.err # NoErr
    THEN ErrorAnswer(RespondWithError(result.err))
    ELSE [NoAnswer EXCEPT !.status = StatusOK,
                          !.access_token = result.pair.access_token,
                          !.refresh_token = result.pair.refresh_token]

\* The Authorization header a client sends with an access token.
Bearer(tok) == [prefix |-> "Bearer ", rest |-> tok]

\* ------------------------------------------------------------ service calls
NoResult == [err |-> NoErr, pair |-> NoPair, user |-> NoUser]

\* A caller's call: the operation and its arguments, its position, its
\* locals (dbToken, user, refreshTokenString) and its result.  after and branch record, for the
\* properties, what was true when the call started: after, that the call it
\* repeats or follows had already returned (RefreshToken: a RefreshToken of
\* the same token had returned a pair; Login: a Register of the same email
\* and password had succeeded); branch, why Login's check failed; orphan,
\* that the owner of the token RefreshToken presents had been deleted;
\* revoke, how the revoke statement of RefreshToken ended.  access is the
\* access token of a request to /auth/me or /auth/logout and response the
\* answer to it.
Idle ==
    [pc |-> "idle", op |-> "", email |-> "", name |-> "", password |-> "",
     token |-> UnknownToken, after |-> FALSE, branch |-> "", orphan |-> FALSE,
     dbToken |-> NoRow, user |-> NoUser,
     refreshTokenString |-> UnknownToken, revoke |-> "",
     result |-> NoResult, access |-> EmptyString, response |-> NoAnswer]

\* A caller starts a call when it has none in progress; the result of its
\* last call stays with it until then.
CanCall(p) == calls[p].pc \in {"idle", "done"}

\* return nil, nil, err
Failure(err) == [err |-> err, pair |-> NoPair, user |-> NoUser]

\* The request the gate has seen before any request: none.
NoRequest ==
    [asked |-> FALSE, query |-> EmptyString, header |-> NoHeader, at |-> 0,
     extract |-> [userID |-> NilID, err |-> NoErr],
     out |-> [aborted |-> FALSE, response |-> NoResponse, user_id |-> NilID,
              next |-> FALSE],
     optional |-> [aborted |-> FALSE, response |-> NoResponse,
                   user_id |-> NilID, next |-> FALSE]]

Init ==
    /\ now = 0
    /\ users = {}
    /\ userSeq = 0
    /\ refreshTokens = {}
    /\ tokenSeq = 0
    /\ calls = [p \in Procs |-> Idle]
    /\ started = 0
    /\ jwts = {}
    /\ rotated = {}
    /\ registered = {}
    /\ faulted = FALSE
    /\ gate = NoRequest
    /\ orphaned = {}

\* The clock advances.
Tick(d) ==
    /\ now + d <= MaxTime
    /\ now' = now + d
    /\ UNCHANGED <<orphaned, users, userSeq, refreshTokens, tokenSeq, calls, started,
                   jwts, rotated, registered, faulted, gate>>

\* Register, on an error of CreateUser: a unique violation (by SQLSTATE or by
\* message text) is ErrUserAlreadyExists, anything else is wrapped.
CreateUserError(dbErr) ==
    IF dbErr = "23505"
    THEN ErrUserAlreadyExists
    ELSE RawError("failed to create user")

\* Register up to the end of CreateUser: hash the password and insert the
\* row; the database decides uniqueness.  The id is drawn from the sequence
\* before the constraint is checked.
RegisterCreateUser(p, email, name, password) ==
    /\ CanCall(p)
    /\ started < MaxCalls
    /\ started' = started + 1
    /\ userSeq' = userSeq + 1
    /\ LET row == [id |-> userSeq + 1, email |-> email, name |-> name,
                   password |-> GenerateFromPassword(password)]
           c == [Idle EXCEPT !.op = "Register", !.email = email,
                             !.name = name, !.password = password]
       IN  IF UsersUniqueViolation(email)
           THEN /\ users' = users
                /\ calls' = [calls EXCEPT ![p] =
                       [c EXCEPT !.pc = "done",
                                 !.result = Failure(CreateUserError("23505"))]]
           ELSE /\ users' = users \cup {row}
                /\ calls' = [calls EXCEPT ![p] =
                       [c EXCEPT !.pc = "issue", !.user = row]]
    /\ UNCHANGED <<orphaned, now, refreshTokens, tokenSeq, jwts, rotated, registered,
                   faulted, gate>>

\* Variant: an unknown email is reported as such.
LoginCheck_RevealsEmail(email, password) ==
    LET found == GetUserByEmail(email)
    IN  IF found = {}
        THEN [user |-> NoUser, err |-> ErrUserNotFound]
        ELSE LET user == CHOOSE u \in found : TRUE
             IN  IF ~CompareHashAndPassword(user.password, password)
                 THEN [user |-> NoUser, err |-> ErrInvalidCredentials]
                 ELSE [user |-> user, err |-> NoErr]

\* Login up to the password check: (user, nil) or the error returned.
LoginCheck(email, password) ==
    LET found == GetUserByEmail(email)
    IN  IF found = {}
        THEN [user |-> NoUser, err |-> ErrInvalidCredentials]
        ELSE LET user == CHOOSE u \in found : TRUE
             IN  IF ~CompareHashAndPassword(user.password, password)
                 THEN [user |-> NoUser, err |-> ErrInvalidCredentials]
                 ELSE [user |-> user, err |-> NoErr]

\* Why Login's check fails for (email, password), if it does.
LoginBranch(email, password) ==
    IF \A u \in users : u.email # email THEN "no_user"
    ELSE IF \A u \in users :
                u.email = email => u.password # GenerateFromPassword(password)
         THEN "bad_password"
         ELSE ""

LoginGetUser(p, email, password) ==
    /\ CanCall(p)
    /\ started < MaxCalls
    /\ started' = started + 1
    /\ LET c == [Idle EXCEPT !.op = "Login", !.email = email,
                   !.password = password,
                   !.branch = LoginBranch(email, password),
                   !.after = (\E x \in registered :
                                 x.email = email /\ x.password = password)]
           x == LoginCheck(email, password)
       IN  calls' = [calls EXCEPT ![p] =
               IF x.err # NoErr
               THEN [c EXCEPT !.pc = "done", !.result = Failure(x.err)]
               ELSE [c EXCEPT !.pc = "issue", !.user = x.user]]
    /\ UNCHANGED <<orphaned, now, users, userSeq, refreshTokens, tokenSeq, jwts,
                   rotated, registered, faulted, gate>>

\* RefreshToken, first statement: look the token up.
RefreshGetToken(p, token) ==
    /\ CanCall(p)
    /\ started < MaxCalls
    /\ started' = started + 1
    /\ LET c == [Idle EXCEPT !.op = "RefreshToken", !.token = token,
                   !.after = (\E x \in rotated : x[1] = token),
                   !.orphan = (token \in orphaned)]
           found == GetRefreshToken(token)
       IN  calls' = [calls EXCEPT ![p] =
               IF found = {}
               THEN [c EXCEPT !.pc = "done",
                              !.result = Failure(ErrInvalidToken)]
               ELSE [c EXCEPT !.pc = "refresh_user",
                              !.dbToken = CHOOSE r \in found : TRUE]]
    /\ UNCHANGED <<orphaned, now, users, userSeq, refreshTokens, tokenSeq, jwts,
                   rotated, registered, faulted, gate>>

\* RefreshToken, second statement: fetch the owner.
RefreshGetUser(p) ==
    /\ calls[p].pc = "refresh_user"
    /\ LET found == GetUserByID(calls[p].dbToken.user_id)
       IN  calls' = [calls EXCEPT ![p] =
               IF found = {}
               THEN [@ EXCEPT !.pc = "done",
                              !.result = Failure(ErrUserNotFound)]
               ELSE [@ EXCEPT !.pc = "refresh_revoke",
                              !.user = CHOOSE u \in found : TRUE]]
    /\ UNCHANGED <<orphaned, now, users, userSeq, refreshTokens, tokenSeq, started,
                   jwts, rotated, registered, faulted, gate>>

\* RefreshToken, third statement: revoke the old token.
RefreshRevoke(p) ==
    /\ calls[p].pc = "refresh_revoke"
    /\ refreshTokens' = RevokeRefreshToken(calls[p].token)
    /\ calls' = [calls EXCEPT ![p].pc = "issue", ![p].revoke = "ok"]
    /\ UNCHANGED <<orphaned, now, users, userSeq, tokenSeq, started, jwts, rotated,
                   registered, faulted, gate>>

\* generateTokenPair for a user: the access token, the refresh token value
\* and the refresh_tokens row.
AccessTokenAt(user, t) ==
    SignedString(JwtSecret, user.id, user.email, t, t + AccessTTL)

AccessTokenFor(user) == AccessTokenAt(user, now)

RefreshRowFor(user, value) ==
    [id |-> tokenSeq + 1, user_id |-> user.id, token |-> value,
     expires_at |-> now + RefreshTTL, is_revoked |-> FALSE]

\* What the three operations return on success: Register and Login return
\* the pair and the user, RefreshToken the pair.
Success(op, pair, user) ==
    [err |-> NoErr, pair |-> pair,
     user |-> IF op = "RefreshToken" THEN NoUser ELSE user]

\* The last part of Register, Login and RefreshToken: generateTokenPair,
\* where crypto/rand yields value, and the return of its result.  The access
\* token is signed first; the insert decides whether the pair is returned.
generateTokenPair(p, value) ==
    /\ calls[p].pc = "issue"
    /\ LET c == calls[p]
           access == AccessTokenFor(c.user)
           ins == CreateRefreshToken(RefreshRowFor(c.user, value))
           pair == [access_token |-> access, refresh_token |-> value]
       IN  /\ refreshTokens' = ins.rows
           /\ tokenSeq' = tokenSeq + 1
           /\ IF ins.err # ""
              THEN /\ calls' = [calls EXCEPT ![p] =
                          [c EXCEPT !.pc = "done",
                             !.refreshTokenString = value,
                             !.result =
                                Failure(RawError("failed to generate tokens"))]]
                   /\ UNCHANGED <<jwts, rotated, registered>>
              ELSE /\ calls' = [calls EXCEPT ![p] =
                          [c EXCEPT !.pc = "done",
                                    !.refreshTokenString = value,
                                    !.result = Success(c.op, pair, c.user)]]
                   /\ jwts' = jwts \cup {access}
                   /\ rotated' = IF c.op = "RefreshToken"
                                 THEN rotated \cup {<<c.token, value>>}
                                 ELSE rotated
                   /\ registered' =
                          IF c.op = "Register"
                          THEN registered \cup {[email |-> c.email,
                                   password |-> c.password, id |-> c.user.id]}
                          ELSE registered
    /\ UNCHANGED <<orphaned, now, users, userSeq, started, gate>>

\* generateTokenPair with a value crypto/rand never gave before.
IssueTokenPair(p) ==
    /\ generateTokenPair(p, FreshTokenValue)
    /\ UNCHANGED faulted

\* Variant: Logout revokes the refresh tokens of the user.
Logout_RevokesAll(p, tok) ==
    /\ CanCall(p)
    /\ started < MaxCalls
    /\ started' = started + 1
    /\ LET g == UserAuthMiddleware(EmptyString, Bearer(tok))
       IN  /\ calls' = [calls EXCEPT ![p] =
                  [Idle EXCEPT !.op = "Logout", !.pc = "done", !.access = tok,
                     !.response =
                        IF g.aborted
                        THEN ErrorAnswer(g.response)
                        ELSE [NoAnswer EXCEPT !.status = StatusOK,
                                !.message = "Logged out successfully"]]]
           /\ refreshTokens' =
                  IF g.aborted
                  THEN refreshTokens
                  ELSE {IF r.user_id = g.user_id.value
                        THEN [r EXCEPT !.is_revoked = TRUE] ELSE r :
                           r \in refreshTokens}
    /\ UNCHANGED <<orphaned, now, users, userSeq, tokenSeq, jwts, rotated,
                   registered, faulted, gate>>

\* POST /auth/logout with the access token tok: UserAuthMiddleware, then
\* AuthHandler.Logout, which answers 200 and touches no table.
Logout(p, tok) ==
    /\ CanCall(p)
    /\ started < MaxCalls
    /\ started' = started + 1
    /\ LET g == UserAuthMiddleware(EmptyString, Bearer(tok))
       IN  calls' = [calls EXCEPT ![p] =
               [Idle EXCEPT !.op = "Logout", !.pc = "done", !.access = tok,
                  !.response =
                     IF g.aborted
                     THEN ErrorAnswer(g.response)
                     ELSE [NoAnswer EXCEPT !.status = StatusOK,
                             !.message = "Logged out successfully"]]]
    /\ UNCHANGED <<orphaned, now, users, userSeq, refreshTokens, tokenSeq,
                   jwts, rotated, registered, faulted, gate>>

\* AuthService.GetUserFromContext: (&user, nil) or (nil, ErrUserNotFound).
GetUserFromContext(userID) ==
    LET found == GetUserByID(userID)
    IN  IF found = {}
        THEN [user |-> NoUser, err |-> ErrUserNotFound]
        ELSE [user |-> CHOOSE u \in found : TRUE, err |-> NoErr]

\* GET /auth/me with the access token tok: UserAuthMiddleware, then
\* AuthHandler.GetMe, which looks the user of the context up.
GetMe(p, tok) ==
    /\ CanCall(p)
    /\ started < MaxCalls
    /\ started' = started + 1
    /\ LET g == UserAuthMiddleware(EmptyString, Bearer(tok))
           x == GetUserFromContext(g.user_id.value)
       IN  calls' = [calls EXCEPT ![p] =
               [Idle EXCEPT !.op = "GetMe", !.pc = "done", !.access = tok,
                  !.user = IF g.aborted THEN NoUser ELSE x.user,
                  !.response =
                     IF g.aborted
                     THEN ErrorAnswer(g.response)
                     ELSE IF x.err # NoErr
                          THEN ErrorAnswer(RespondWithError(x.err))
                          ELSE [NoAnswer EXCEPT !.status = StatusOK,
                                  !.user = UserResponse(x.user)]]]
    /\ UNCHANGED <<orphaned, now, users, userSeq, refreshTokens, tokenSeq,
                   jwts, rotated, registered, faulted, gate>>

\* The refresh token strings a caller can present: any handed out, or unknown.
TokenInputs == IssuedValues \cup {UnknownToken}

ClientStep(p) ==
    \/ \E e \in Emails, n \in Names, w \in Passwords :
           RegisterCreateUser(p, e, n, w)
    \/ \E e \in Emails, w \in Passwords : LoginGetUser(p, e, w)
    \/ \E t \in TokenInputs : RefreshGetToken(p, t)
    \/ RefreshGetUser(p)
    \/ RefreshRevoke(p)
    \/ IssueTokenPair(p)
    \/ \E tok \in jwts : Logout(p, tok)
    \/ \E tok \in jwts : GetMe(p, tok)

Next ==
    \/ \E p \in Procs : ClientStep(p)
    \/ \E d \in TickSteps : Tick(d)

\* Concurrent callers, every collaborator call succeeding.
Spec == Init /\ [][Next]_vars

\* ------------------------------------------------- collaborator failures
\* A call to the database, bcrypt, crypto/rand or the signer returns an
\* error.  Each action is the path the caller takes on that error.

\* bcrypt.GenerateFromPassword fails: Register returns the wrapped error.
HashFails(p, email, name, password) ==
    /\ CanCall(p)
    /\ started < MaxCalls
    /\ started' = started + 1
    /\ calls' = [calls EXCEPT ![p] =
           [Idle EXCEPT !.op = "Register", !.email = email, !.name = name,
              !.password = password, !.pc = "done",
              !.result = Failure(RawError("failed to hash password"))]]
    /\ faulted' = TRUE
    /\ UNCHANGED <<orphaned, now, users, userSeq, refreshTokens, tokenSeq, jwts,
                   rotated, registered, gate>>

\* CreateUser fails for another reason than the unique constraint.
CreateUserFails(p, email, name, password) ==
    /\ CanCall(p)
    /\ started < MaxCalls
    /\ started' = started + 1
    /\ calls' = [calls EXCEPT ![p] =
           [Idle EXCEPT !.op = "Register", !.email = email, !.name = name,
              !.password = password, !.pc = "done",
              !.result = Failure(CreateUserError("08006"))]]
    /\ faulted' = TRUE
    /\ UNCHANGED <<orphaned, now, users, userSeq, refreshTokens, tokenSeq, jwts,
                   rotated, registered, gate>>

\* GetUserByEmail fails: Login returns ErrInvalidCredentials for any error.
LoginGetUserFails(p, email, password) ==
    /\ CanCall(p)
    /\ started < MaxCalls
    /\ started' = started + 1
    /\ calls' = [calls EXCEPT ![p] =
           [Idle EXCEPT !.op = "Login", !.email = email,
              !.password = password, !.pc = "done",
              !.after = (\E x \in registered :
                            x.email = email /\ x.password = password),
              !.result = Failure(ErrInvalidCredentials)]]
    /\ faulted' = TRUE
    /\ UNCHANGED <<orphaned, now, users, userSeq, refreshTokens, tokenSeq, jwts,
                   rotated, registered, gate>>

\* GetRefreshToken fails: RefreshToken returns ErrInvalidToken for any error.
RefreshGetTokenFails(p, token) ==
    /\ CanCall(p)
    /\ started < MaxCalls
    /\ started' = started + 1
    /\ calls' = [calls EXCEPT ![p] =
           [Idle EXCEPT !.op = "RefreshToken", !.token = token, !.pc = "done",
              !.after = (\E x \in rotated : x[1] = token),
              !.orphan = (token \in orphaned),
              !.result = Failure(ErrInvalidToken)]]
    /\ faulted' = TRUE
    /\ UNCHANGED <<orphaned, now, users, userSeq, refreshTokens, tokenSeq, jwts,
                   rotated, registered, gate>>

\* GetUserByID fails: RefreshToken returns ErrUserNotFound for any error.
RefreshGetUserFails(p) ==
    /\ calls[p].pc = "refresh_user"
    /\ calls' = [calls EXCEPT ![p] =
           [@ EXCEPT !.pc = "done", !.result = Failure(ErrUserNotFound)]]
    /\ faulted' = TRUE
    /\ UNCHANGED <<orphaned, now, users, userSeq, refreshTokens, tokenSeq, started,
                   jwts, rotated, registered, gate>>

\* Variant: a failed revoke ends the call with an error.
RefreshRevokeFails_Aborts(p) ==
    /\ calls[p].pc = "refresh_revoke"
    /\ calls' = [calls EXCEPT ![p] =
           [@ EXCEPT !.pc = "done", !.revoke = "failed",
              !.result = Failure(RawError("failed to revoke token"))]]
    /\ faulted' = TRUE
    /\ UNCHANGED <<orphaned, now, users, userSeq, refreshTokens, tokenSeq,
                   started, jwts, rotated, registered, gate>>

\* RevokeRefreshToken fails: the error is dropped and the call goes on.
RefreshRevokeFails(p) ==
    /\ calls[p].pc = "refresh_revoke"
    /\ calls' = [calls EXCEPT ![p].pc = "issue", ![p].revoke = "failed"]
    /\ faulted' = TRUE
    /\ UNCHANGED <<orphaned, now, users, userSeq, refreshTokens, tokenSeq, started,
                   jwts, rotated, registered, gate>>

\* Variant: Register takes its user row back when issuing fails.
IssueFails_DeletesUser(p) ==
    /\ calls[p].pc = "issue"
    /\ users' = IF calls[p].op = "Register"
                THEN users \ {calls[p].user} ELSE users
    /\ calls' = [calls EXCEPT ![p] =
           [@ EXCEPT !.pc = "done",
              !.result = Failure(RawError("failed to generate tokens"))]]
    /\ faulted' = TRUE
    /\ UNCHANGED <<orphaned, now, userSeq, refreshTokens, tokenSeq, started,
                   jwts, rotated, registered, gate>>

\* Variant: the row is stored and the call fails all the same.
IssueFails_RowStored(p) ==
    /\ calls[p].pc = "issue"
    /\ refreshTokens' =
           refreshTokens \cup {RefreshRowFor(calls[p].user, FreshTokenValue)}
    /\ tokenSeq' = tokenSeq + 1
    /\ calls' = [calls EXCEPT ![p] =
           [@ EXCEPT !.pc = "done",
              !.result = Failure(RawError("failed to generate tokens"))]]
    /\ faulted' = TRUE
    /\ UNCHANGED <<orphaned, now, users, userSeq, started, jwts, rotated,
                   registered, gate>>

\* generateTokenPair fails (signing, crypto/rand or CreateRefreshToken): no
\* row is stored and the caller returns the wrapped error.
IssueFails(p) ==
    /\ calls[p].pc = "issue"
    /\ calls' = [calls EXCEPT ![p] =
           [@ EXCEPT !.pc = "done",
              !.result = Failure(RawError("failed to generate tokens"))]]
    /\ faulted' = TRUE
    /\ UNCHANGED <<orphaned, now, users, userSeq, refreshTokens, tokenSeq, started,
                   jwts, rotated, registered, gate>>

\* crypto/rand yields a value some row holds: the insert violates the unique
\* constraint and the caller returns the wrapped error.
IssueCollides(p) ==
    /\ \E r \in refreshTokens : generateTokenPair(p, r.token)
    /\ faulted' = TRUE

FaultStep(p) ==
    \/ \E e \in Emails, n \in Names, w \in Passwords : HashFails(p, e, n, w)
    \/ \E e \in Emails, n \in Names, w \in Passwords :
           CreateUserFails(p, e, n, w)
    \/ \E e \in Emails, w \in Passwords : LoginGetUserFails(p, e, w)
    \/ \E t \in TokenInputs : RefreshGetTokenFails(p, t)
    \/ RefreshGetUserFails(p)
    \/ RefreshRevokeFails(p)
    \/ IssueFails(p)
    \/ IssueCollides(p)

NextFaults ==
    \/ \E p \in Procs : ClientStep(p)
    \/ \E p \in Procs : FaultStep(p)
    \/ \E d \in TickSteps : Tick(d)

\* Concurrent callers, any collaborator call may fail.
SpecFaults == Init /\ [][NextFaults]_vars

\* ------------------------------------------------- changes to table users
\* Statements on users that no service call issues: a row is deleted, or
\* UpdateUser gives it another email.

\* Variant: the rows of a deleted user stay.
OnDeleteNoCascade(id) == refreshTokens

\* user_id INTEGER NOT NULL REFERENCES users(id) ON DELETE CASCADE: the rows
\* of refresh_tokens left when the user id is deleted.
OnDeleteCascade(id) == {r \in refreshTokens : r.user_id # id}

\* DELETE FROM users WHERE id = $1
DeleteUser(id) ==
    /\ \E u \in users : u.id = id
    /\ users' = {u \in users : u.id # id}
    /\ refreshTokens' = OnDeleteCascade(id)
    /\ orphaned' =
           orphaned \cup {r.token : r \in {x \in refreshTokens : x.user_id = id}}
    /\ UNCHANGED <<now, userSeq, tokenSeq, calls, started, jwts, rotated,
                   registered, faulted, gate>>

\* UPDATE users SET email = $2, ... WHERE id = $1, name and password as they
\* were; the unique constraint refuses an email another row holds.
UpdateUser(id, email) ==
    /\ \E u \in users : u.id = id /\ u.email # email
    /\ ~UsersUniqueViolation(email)
    /\ users' = {IF u.id = id THEN [u EXCEPT !.email = email] ELSE u :
                    u \in users}
    /\ UNCHANGED <<orphaned, now, userSeq, refreshTokens, tokenSeq, calls,
                   started, jwts, rotated, registered, faulted, gate>>

\* The caller whose calls run while the rows of users change.
OneCaller == {1}

NextUsers ==
    \/ \E p \in OneCaller : ClientStep(p)
    \/ \E d \in TickSteps : Tick(d)
    \/ \E u \in users : DeleteUser(u.id)
    \/ \E u \in users, e \in Emails : UpdateUser(u.id, e)

\* The calls of one caller while users are deleted and renamed.
SpecUsers == Init /\ [][NextUsers]_vars

\* ------------------------------------------------ requests through the gate
\* Tampering: the claims are changed and the signature is kept.
Tamper(tok) == [tok EXCEPT !.user_id = tok.user_id + 1]

\* The claims of tok signed by someone who holds another secret.
Resign(tok) ==
    SignedString(OtherSecret, tok.user_id, tok.email, tok.iat, tok.exp)

\* The claims of tok signed with the service's secret under another HMAC
\* method (the header names alg).
SignedWith(alg, tok) ==
    [tok EXCEPT !.alg = alg,
                !.sig = HMAC(JwtSecret, alg, tok.user_id, tok.email, tok.iat,
                             tok.exp)]

\* The claims of tok with the header {"alg": "none"} and no signature.
Unsecured(tok) == [tok EXCEPT !.alg = "none", !.sig = <<>>]

\* The gate reads no table: its answer is a function of the request, the
\* secret and the clock.  Its requests carry the access tokens that
\* generateTokenPair makes for two registered users at two instants, those
\* tokens tampered with, signed with another secret, signed under another
\* method or not signed, text that is no JWT, or nothing.
GateUsers ==
    {[id |-> 1, email |-> "a@x.com", name |-> "A",
      password |-> GenerateFromPassword("pw123456")],
     [id |-> 2, email |-> "b@x.com", name |-> "A",
      password |-> GenerateFromPassword("pw123456")]}
IssueTimes == {0, AccessTTL}
IssuedTokens == {AccessTokenAt(u, t) : u \in GateUsers, t \in IssueTimes}

\* The tokens presented re-signed, under another method and unsigned.
FirstTokens == {AccessTokenAt(u, 0) : u \in GateUsers}

GateTokens ==
    {EmptyString, Garbage} \cup IssuedTokens
        \cup {Tamper(t) : t \in IssuedTokens}
        \cup {Resign(t) : t \in FirstTokens}
        \cup {SignedWith("HS384", t) : t \in FirstTokens}
        \cup {Unsecured(t) : t \in FirstTokens}

\* Authorization header values: absent (""), "Bearer " + token, raw token.
Headers == {[prefix |-> x, rest |-> t] : x \in {"", "Bearer "}, t \in GateTokens}

\* A request to a route behind UserAuthMiddleware (out) and the same request
\* to a route behind OptionalUserAuthMiddleware (optional).
GateRequest(query, authHeader) ==
    /\ gate' = [asked |-> TRUE, query |-> query, header |-> authHeader,
                at |-> now,
                extract |-> ExtractUserIDFromJWT(query, authHeader),
                out |-> UserAuthMiddleware(query, authHeader),
                optional |-> OptionalUserAuthMiddleware(query, authHeader)]
    /\ UNCHANGED <<orphaned, now, users, userSeq, refreshTokens, tokenSeq, calls,
                   started, jwts, rotated, registered, faulted>>

NextGate ==
    \/ \E d \in TickSteps : Tick(d)
    \/ \E q \in GateTokens, h \in Headers : GateRequest(q, h)

\* Requests through the gate as the clock advances.
SpecGate == Init /\ [][NextGate]_vars

\* =================================================================== claims

\* C1: single-use rotation.  Once a call RefreshToken(t) has returned a token
\* pair, every call RefreshToken(t) started later fails with ErrInvalidToken
\* and returns no pair.
C1_SingleUseRotation ==
    \A p \in Procs :
        (calls[p].op = "RefreshToken" /\ calls[p].after)
        => /\ calls[p].pc = "done"
           /\ calls[p].result = Failure(ErrInvalidToken)

\* C2: of the RefreshToken calls presenting one refresh token, at most one
\* returns a token pair: no refresh token yields two new refresh tokens.
C2_AtMostOneRotation ==
    \A x \in rotated, y \in rotated : x[1] = y[1] => x = y

\* C3: of the Register calls carrying one email, exactly one succeeds and
\* creates the single user row of that email; every other one fails with
\* ErrUserAlreadyExists (auth.user_exists, 400), with no pair and no user,
\* never with an internal error.
C3_RegisterSameEmail ==
    /\ \A e \in Emails :
        /\ Cardinality({x \in registered : x.email = e}) <= 1
        /\ Cardinality({u \in users : u.email = e}) <= 1
        /\ ((\E u \in users : u.email = e)
              /\ \A p \in Procs :
                   ~(calls[p].op = "Register" /\ calls[p].email = e
                       /\ calls[p].pc = "issue"))
           => Cardinality({x \in registered : x.email = e}) = 1
    /\ \A p \in Procs :
        (calls[p].op = "Register" /\ calls[p].pc = "done"
            /\ calls[p].result.err # NoErr)
        => /\ calls[p].result.err =
                 [kind |-> "domain", key |-> "auth.user_exists",
                  message |-> "User with this email already exists",
                  status |-> 400]
           /\ calls[p].result.pair = NoPair
           /\ calls[p].result.user = NoUser
           /\ RespondWithError(calls[p].result.err).status = 400
           /\ RespondWithError(calls[p].result.err).error_key
                  = "auth.user_exists"

\* Two Register calls of one email are in progress together: the one that
\* lost at the constraint has its error while the winner has not returned.
C3_Witness ==
    \E p \in Procs, q \in Procs :
        /\ calls[p].op = "Register" /\ calls[p].pc = "issue"
        /\ calls[q].op = "Register" /\ calls[q].pc = "done"
        /\ calls[q].email = calls[p].email
        /\ calls[q].result.err = ErrUserAlreadyExists

\* C4: Login with a registered email and a wrong password and Login with an
\* email that is not registered return the identical error
\* ErrInvalidCredentials (auth.invalid_credentials, 401, same message), with
\* no pair and no user.
C4_LoginFailuresIdentical ==
    /\ \A p \in Procs :
        (calls[p].op = "Login" /\ calls[p].pc = "done"
            /\ calls[p].branch \in {"no_user", "bad_password"})
        => /\ calls[p].result =
                 [err |-> [kind |-> "domain",
                           key |-> "auth.invalid_credentials",
                           message |-> "Invalid email or password",
                           status |-> 401],
                  pair |-> NoPair, user |-> NoUser]
           /\ RespondWithError(calls[p].result.err) =
                 [status |-> 401, error_key |-> "auth.invalid_credentials",
                  message |-> "Invalid email or password"]
    /\ \A p \in Procs, q \in Procs :
        (calls[p].op = "Login" /\ calls[p].pc = "done"
            /\ calls[p].branch = "no_user"
            /\ calls[q].op = "Login" /\ calls[q].pc = "done"
            /\ calls[q].branch = "bad_password")
        => calls[p].result = calls[q].result

\* One caller has the answer for an unregistered email, another the answer
\* for a wrong password.
C4_Witness ==
    \E p \in Procs, q \in Procs :
        /\ calls[p].op = "Login" /\ calls[p].pc = "done"
        /\ calls[p].branch = "no_user"
        /\ calls[q].op = "Login" /\ calls[q].pc = "done"
        /\ calls[q].branch = "bad_password"

\* C5: the refresh-token lookup returns a row only when the token value is
\* stored, its expiry is strictly after the current time and it is not
\* revoked; RefreshToken with an unknown, expired or revoked token fails
\* with ErrInvalidToken (auth.invalid_token, 401), returns no pair and leaves
\* the users and refresh_tokens rows unchanged.
C5_InactiveTokenRejected ==
    [][\A p \in Procs :
        (CanCall(p) /\ calls'[p] # calls[p]
            /\ calls'[p].op = "RefreshToken")
        => LET t == calls'[p].token
               active == \E r \in refreshTokens :
                            /\ r.token = t
                            /\ r.expires_at > now
                            /\ ~r.is_revoked
           IN  /\ calls'[p].pc = "refresh_user"
                  => /\ active
                     /\ calls'[p].dbToken \in refreshTokens
                     /\ calls'[p].dbToken.token = t
               /\ ~active
                  => /\ calls'[p].pc = "done"
                     /\ calls'[p].result =
                           [err |-> [kind |-> "domain",
                                     key |-> "auth.invalid_token",
                                     message |-> "Invalid token",
                                     status |-> 401],
                            pair |-> NoPair, user |-> NoUser]
                     /\ users' = users
                     /\ refreshTokens' = refreshTokens]_vars

\* A RefreshToken call failed with ErrInvalidToken on a stored token that
\* was never revoked: the token had expired.
C5_Witness ==
    \E p \in Procs :
        /\ calls[p].op = "RefreshToken" /\ calls[p].pc = "done"
        /\ calls[p].result = Failure(ErrInvalidToken)
        /\ \E r \in refreshTokens :
               /\ r.token = calls[p].token
               /\ r.expires_at <= now
               /\ ~r.is_revoked

\* C6: after a successful Register, Login with the same email and password
\* succeeds and returns a user with the id and email Register returned.
C6_RegisterThenLogin ==
    \A p \in Procs :
        (calls[p].op = "Login" /\ calls[p].after)
        => /\ calls[p].pc \in {"issue", "done"}
           /\ \E x \in registered :
                 /\ x.email = calls[p].email
                 /\ x.password = calls[p].password
                 /\ calls[p].user.id = x.id
                 /\ calls[p].user.email = x.email
           /\ calls[p].pc = "done"
              => /\ calls[p].result.err = NoErr
                 /\ calls[p].result.pair # NoPair
                 /\ calls[p].result.user = calls[p].user

\* A Login started after the Register of its email and password has
\* returned its pair and user.
C6_Witness ==
    \E p \in Procs :
        /\ calls[p].op = "Login" /\ calls[p].after /\ calls[p].pc = "done"
        /\ calls[p].result.err = NoErr

\* What it is for the gate to authenticate a request with the token tok:
\* the handler runs exactly when VerifyJWT accepts tok, then as the user of
\* tok's claims; an empty tok is answered auth.token_required and a rejected
\* one auth.invalid_token.
AuthenticatesWith(tok) ==
    LET accepted == tok # EmptyString /\ VerifyJWT(tok).valid
    IN  /\ gate.out.next = accepted
        /\ gate.out.aborted = ~accepted
        /\ accepted => gate.out.user_id = PtrID(tok.user_id)
        /\ tok = EmptyString
           => gate.out.response.error_key = "auth.token_required"
        /\ (tok # EmptyString /\ ~accepted)
           => gate.out.response.error_key = "auth.invalid_token"

\* C7 as stated: when a request carries both an Authorization header token
\* and a token query parameter, the gate authenticates with the header
\* token; the query parameter is consulted only without a header.
C7_HeaderPrecedence ==
    (gate.asked /\ now = gate.at)
    => /\ (gate.header.rest # EmptyString /\ gate.query # EmptyString)
          => AuthenticatesWith(gate.header.rest)
       /\ gate.header = NoHeader => AuthenticatesWith(gate.query)

\* C7 as amended: when a request carries both, the gate authenticates with
\* the query parameter token; the Authorization header is consulted only
\* when the token query parameter is absent or empty.
C7_QueryPrecedence ==
    (gate.asked /\ now = gate.at)
    => /\ gate.query # EmptyString => AuthenticatesWith(gate.query)
       /\ gate.query = EmptyString => AuthenticatesWith(gate.header.rest)

\* A request carries a header token of one user and a query token of
\* another, both valid, and runs as the user of the query token.
C7_Witness ==
    /\ gate.asked
    /\ gate.query # EmptyString /\ gate.header.rest # EmptyString
    /\ VerifyJWT(gate.query).valid /\ VerifyJWT(gate.header.rest).valid
    /\ gate.query.user_id # gate.header.rest.user_id
    /\ gate.out.next
    /\ gate.out.user_id = PtrID(gate.query.user_id)

\* C8: ExtractUserIDFromJWT returns (nil, nil) when no token is supplied and
\* (nil, error) when the supplied token fails verification; the mandatory
\* gate answers the first with auth.token_required and the second with
\* auth.invalid_token, both with status 401.
C8_AbsentVsInvalid ==
    (gate.asked /\ now = gate.at)
    => LET tok == RequestToken(gate.query, gate.header)
       IN  /\ (gate.query = EmptyString /\ gate.header.rest = EmptyString)
              => /\ gate.extract = [userID |-> NilID, err |-> NoErr]
                 /\ gate.out.aborted
                 /\ gate.out.response =
                       [status |-> 401, error_key |-> "auth.token_required",
                        message |-> "User not authenticated"]
           /\ (tok # EmptyString /\ ParseWithClaims(tok) # "ok")
              => /\ gate.extract.userID = NilID
                 /\ gate.extract.err # NoErr
                 /\ gate.out.aborted
                 /\ gate.out.response.status = 401
                 /\ gate.out.response.error_key = "auth.invalid_token"

\* A request without any token was answered auth.token_required.
C8_Witness ==
    /\ gate.asked
    /\ gate.query = EmptyString /\ gate.header = NoHeader
    /\ gate.extract = [userID |-> NilID, err |-> NoErr]
    /\ gate.out.response.error_key = "auth.token_required"

\* C9: behind UserAuthMiddleware the handler runs only if the request
\* carries a token VerifyJWT accepts, and then user_id in the context is the
\* user id of that token's claims; with no token or a rejected one the
\* request is aborted with status 401 and the handler does not run.
C9_HandlerRunsOnlyAuthenticated ==
    (gate.asked /\ now = gate.at)
    => LET carried == {gate.query, gate.header.rest} \ {EmptyString}
           accepted == {tok \in carried : VerifyJWT(tok).valid}
       IN  /\ gate.out.next
              => /\ ~gate.out.aborted
                 /\ \E tok \in accepted :
                       gate.out.user_id = PtrID(tok.user_id)
           /\ accepted = {}
              => /\ gate.out.aborted
                 /\ ~gate.out.next
                 /\ gate.out.response.status = 401
                 /\ gate.out.user_id = NilID

\* A request with a valid token reached the handler as that token's user.
C9_Witness ==
    /\ gate.asked
    /\ gate.out.next
    /\ gate.query = EmptyString
    /\ gate.header.prefix = "Bearer "
    /\ gate.out.user_id = PtrID(gate.header.rest.user_id)
    /\ gate.header.rest \in IssuedTokens

\* C10: an access token the service issued verifies at every time before
\* its expiry, and from its expiry on verification fails with an error that
\* differs from the error returned for a bad signature.
C10_ExpirySpecificError ==
    \A t \in jwts :
        /\ now < t.exp => VerifyJWT(t).valid
        /\ now >= t.exp
           => /\ ~VerifyJWT(t).valid
              /\ VerifyJWT(t).err # VerifyJWT(Resign(t)).err

\* C11: VerifyJWT accepts a token only if its header names HS256, the method
\* the service signs with; a token naming another method, or none, is
\* rejected with ErrInvalidToken even when its signature is valid under the
\* service's secret, and the gate does not let it through.
C11_OnlyHS256Accepted ==
    (gate.asked /\ now = gate.at)
    => LET tok == RequestToken(gate.query, gate.header)
       IN  (tok.fmt = "jwt" /\ tok.alg # "HS256")
           => /\ ~VerifyJWT(tok).valid
              /\ VerifyJWT(tok).err = ErrInvalidToken
              /\ ~gate.out.next

\* C12: every kind of verification failure is answered alike: for a
\* tampered token, a token signed with another secret, an expired token and
\* a malformed string VerifyJWT returns (nil, ErrInvalidToken) and the gate
\* aborts with 401, auth.invalid_token and one message.
C12_FailuresAnsweredAlike ==
    (gate.asked /\ now = gate.at)
    => LET tok == RequestToken(gate.query, gate.header)
           failing ==
               \/ tok = Garbage
               \/ \E t \in IssuedTokens : tok = Tamper(t)
               \/ \E t \in FirstTokens : tok = Resign(t)
               \/ tok \in IssuedTokens /\ now >= tok.exp
       IN  failing
           => /\ VerifyJWT(tok) =
                     [token |-> EmptyString, valid |-> FALSE,
                      err |-> [kind |-> "domain", key |-> "auth.invalid_token",
                               message |-> "Invalid token", status |-> 401]]
              /\ gate.out =
                     [aborted |-> TRUE,
                      response |-> [status |-> 401,
                                    error_key |-> "auth.invalid_token",
                                    message |-> "Invalid or expired token"],
                      user_id |-> NilID, next |-> FALSE]

\* The gate has answered a token the service issued, presented after its
\* expiry, with auth.invalid_token.
C12_Witness ==
    /\ gate.asked
    /\ gate.query \in IssuedTokens
    /\ gate.at >= gate.query.exp
    /\ gate.out.aborted
    /\ gate.out.response.error_key = "auth.invalid_token"

\* C13: every successful Login or RefreshToken returns an access token that
\* differs from every access token issued before (so from every one issued
\* to the same user, the one Register returned included) and that carries
\* the id of the user it is issued to.
C13_FreshAccessToken ==
    [][\A p \in Procs :
        (calls[p].pc = "issue" /\ calls'[p].pc = "done"
            /\ calls[p].op \in {"Login", "RefreshToken"}
            /\ calls'[p].result.err = NoErr)
        => /\ calls'[p].result.pair.access_token \notin jwts
           /\ calls'[p].result.pair.access_token.user_id = calls[p].user.id]_vars

\* C14: in every step of Register, Login, RefreshToken and Logout every
\* refresh_tokens row stays, with its token value, owner and expiry as they
\* were, and its revoked flag changes at most from false to true.
C14_RefreshTokenLifecycle ==
    [][\A r \in refreshTokens :
        /\ Cardinality({q \in refreshTokens' : q.id = r.id}) = 1
        /\ \E q \in refreshTokens' :
              /\ q.id = r.id
              /\ q.token = r.token
              /\ q.user_id = r.user_id
              /\ q.expires_at = r.expires_at
              /\ r.is_revoked => q.is_revoked]_vars

\* After a rotation and a Logout the table holds the revoked row and the
\* active row that replaced it.
C14_Witness ==
    /\ \E p \in Procs : calls[p].op = "Logout"
    /\ \E x \in rotated :
          /\ \E r \in refreshTokens : r.token = x[1] /\ r.is_revoked
          /\ \E r \in refreshTokens : r.token = x[2] /\ ~r.is_revoked

\* C15: no two refresh_tokens rows hold one token value, and a value once
\* stored is never stored again, expired or revoked as its row may be; when
\* the value generateTokenPair draws is one a row holds, the call fails with
\* the internal error (500, internal_error) after that one insert, returns
\* no pair and leaves the table as it was.
C15_TokenValuesUnique ==
    /\ [](\A r \in refreshTokens, q \in refreshTokens :
              r.token = q.token => r = q)
    /\ [][\A p \in Procs :
            (calls[p].pc = "issue" /\ calls'[p].pc = "done")
            => LET stored == {r.token : r \in refreshTokens}
                   value == calls'[p].refreshTokenString
               IN  /\ \A r \in refreshTokens' \ refreshTokens :
                         r.token \notin stored
                   /\ calls'[p].result.err = NoErr
                      => calls'[p].result.pair.refresh_token \notin stored
                   /\ value \in stored
                      => /\ RespondWithError(calls'[p].result.err) =
                               [status |-> 500, error_key |-> "internal_error",
                                message |-> "Something went wrong"]
                         /\ calls'[p].result.pair = NoPair
                         /\ refreshTokens' = refreshTokens
                         /\ tokenSeq' = tokenSeq + 1]_vars

\* A call drew a value that a row holds, and failed.
C15_Witness ==
    \E p \in Procs :
        /\ calls[p].pc = "done"
        /\ calls[p].result.err # NoErr
        /\ \E r \in refreshTokens : r.token = calls[p].refreshTokenString
        /\ Cardinality(refreshTokens) >= 2

\* C16: a refresh_tokens row is created exactly when Register, Login or
\* RefreshToken returns success: the step in which a call returns a pair
\* creates one row, owned by the call's user and holding the refresh token
\* returned, and no other step creates a row, so a call that returns an
\* error has created none.
C16_RowExactlyOnSuccess ==
    [][LET new == {r \in refreshTokens' :
                      \A q \in refreshTokens : q.id # r.id}
           winners == {p \in Procs :
                          /\ calls'[p] # calls[p]
                          /\ calls'[p].pc = "done"
                          /\ calls'[p].op \in {"Register", "Login",
                                                "RefreshToken"}
                          /\ calls'[p].result.err = NoErr}
       IN  /\ Cardinality(new) = Cardinality(winners)
           /\ \A p \in winners :
                 \E r \in new :
                    /\ r.token = calls'[p].result.pair.refresh_token
                    /\ r.user_id = calls'[p].user.id
                    /\ calls'[p].op \in {"Register", "Login"}
                       => calls'[p].result.user.id = r.user_id
                    /\ ~r.is_revoked]_vars

\* One call has returned a pair whose refresh token a row of its user holds,
\* another has failed in generateTokenPair, and the table holds one row.
C16_Witness ==
    \E p \in Procs, q \in Procs :
        /\ calls[p].pc = "done" /\ calls[p].result.err = NoErr
        /\ calls[p].op = "Register"
        /\ \E r \in refreshTokens :
              /\ r.token = calls[p].result.pair.refresh_token
              /\ r.user_id = calls[p].result.user.id
        /\ calls[q].pc = "done" /\ calls[q].op = "Login"
        /\ calls[q].result.err = RawError("failed to generate tokens")
        /\ Cardinality(refreshTokens) = 1

\* C17: a successful RefreshToken(t) issues the pair for the owner of t: the
\* user it fetches is the stored row of the owner, the new refresh_tokens
\* row has the owner's id, and the new access token carries that id and the
\* email the call read from the user's row, whatever the email was when t
\* was minted.
C17_RefreshBindsOwner ==
    [][\A p \in Procs :
        /\ (CanCall(p) /\ calls'[p].pc = "refresh_user")
           => /\ calls'[p].dbToken \in refreshTokens
              /\ calls'[p].dbToken.token = calls'[p].token
        /\ (calls[p].pc = "refresh_user" /\ calls'[p].pc = "refresh_revoke")
           => /\ calls'[p].user \in users
              /\ calls'[p].user.id = calls[p].dbToken.user_id
        /\ (calls[p].op = "RefreshToken" /\ calls[p].pc = "issue"
               /\ calls'[p].pc = "done" /\ calls'[p].result.err = NoErr)
           => LET owner == calls[p].dbToken.user_id
                  tok == calls'[p].result.pair.access_token
              IN  /\ \E r \in refreshTokens' :
                        /\ r.token = calls'[p].result.pair.refresh_token
                        /\ r.user_id = owner
                  /\ \A o \in refreshTokens :
                        o.token = calls[p].token => o.user_id = owner
                  /\ tok.user_id = owner
                  /\ tok.email = calls[p].user.email]_vars

\* RefreshToken has returned an access token whose email differs from the
\* email in an earlier access token of the same user.
C17_Witness ==
    \E p \in Procs :
        /\ calls[p].op = "RefreshToken" /\ calls[p].pc = "done"
        /\ calls[p].result.err = NoErr
        /\ \E j \in jwts :
              /\ j.user_id = calls[p].result.pair.access_token.user_id
              /\ j.email # calls[p].result.pair.access_token.email

C19_EmailsUniqueIgnoringCase ==
    \A u \in users, v \in users :
        LOWER(u.email) = LOWER(v.email) => u = v

\* C20: every error Register, Login and RefreshToken return is a
\* DomainError (key, message, status); none is a raw wrapped error.
C20_ClosedErrorSet ==
    \A p \in Procs :
        (calls[p].pc = "done"
            /\ calls[p].op \in {"Register", "Login", "RefreshToken"})
        => \/ calls[p].result.err = NoErr
           \/ /\ calls[p].result.err.kind = "domain"
              /\ calls[p].result.err.key # ""
              /\ calls[p].result.err.status \in {400, 401, 404, 409, 500}

\* C30: OptionalUserAuthMiddleware never aborts: the next handler runs for
\* every request, user_id is in the context exactly when the request's token
\* is there and VerifyJWT accepts it, and a request with a rejected token
\* goes on exactly as a request with no token does.
C30_OptionalNeverAborts ==
    (gate.asked /\ now = gate.at)
    => LET tok == RequestToken(gate.query, gate.header)
           accepted == tok # EmptyString /\ VerifyJWT(tok).valid
       IN  /\ gate.optional.next
           /\ ~gate.optional.aborted
           /\ gate.optional.response = NoResponse
           /\ gate.optional.user_id # NilID <=> accepted
           /\ accepted => gate.optional.user_id = PtrID(tok.user_id)
           /\ ~accepted
              => gate.optional = OptionalUserAuthMiddleware(EmptyString, NoHeader)

\* A request with a tampered token was aborted by the mandatory gate and
\* went on without identity through the optional one.
C30_Witness ==
    /\ gate.asked
    /\ \E t \in IssuedTokens : gate.query = Tamper(t)
    /\ gate.out.aborted
    /\ gate.optional.next
    /\ gate.optional.user_id = NilID

\* C21: an error with no DomainError in its chain is answered with key
\* internal_error, status 500 and the message "Something went wrong", never
\* with the text of the error; a DomainError is answered with its own key,
\* message and status.
C21_OpaqueInternalError ==
    \A p \in Procs :
        (calls[p].pc = "done" /\ calls[p].result.err # NoErr)
        => LET err == calls[p].result.err
               response == RespondWithError(err)
           IN  /\ err.kind = "raw"
                  => /\ response =
                           [status |-> 500, error_key |-> "internal_error",
                            message |-> "Something went wrong"]
                     /\ response.message # err.message
               /\ err.kind = "domain"
                  => response =
                        [status |-> err.status, error_key |-> err.key,
                         message |-> err.message]

\* One caller holds a wrapped hashing error, the other a DomainError.
C21_Witness ==
    \E p \in Procs, q \in Procs :
        /\ calls[p].pc = "done"
        /\ calls[p].result.err = RawError("failed to hash password")
        /\ calls[q].pc = "done"
        /\ calls[q].result.err = ErrInvalidCredentials

\* C22: when the user lookup of Login, or the refresh-token or user lookup
\* of RefreshToken, fails for another reason than an absent row, the call
\* surfaces an internal error, not ErrInvalidCredentials, ErrInvalidToken or
\* ErrUserNotFound.
C22_IOFailureIsInternal ==
    [][\A p \in Procs :
        (\/ \E e \in Emails, w \in Passwords : LoginGetUserFails(p, e, w)
         \/ \E t \in TokenInputs : RefreshGetTokenFails(p, t)
         \/ RefreshGetUserFails(p))
        => /\ calls'[p].result.err \notin
                 {ErrInvalidCredentials, ErrInvalidToken, ErrUserNotFound}
           /\ RespondWithError(calls'[p].result.err).error_key
                 = "internal_error"]_vars

\* C23: the gate is a pure verifier.  Whatever the rows of users and
\* refresh_tokens are, an access token the service issued passes
\* UserAuthMiddleware and OptionalUserAuthMiddleware as its user exactly
\* while the clock is before its expiry, also after its refresh token was
\* rotated or revoked and after its user was deleted; and a request through
\* the gate changes no row.
C23_GateIsPureVerifier ==
    /\ [](\A t \in jwts :
             LET out == UserAuthMiddleware(EmptyString, Bearer(t))
                 opt == OptionalUserAuthMiddleware(EmptyString, Bearer(t))
             IN  /\ now < t.exp
                    => /\ VerifyJWT(t).valid
                       /\ out.next /\ out.user_id = PtrID(t.user_id)
                       /\ opt.user_id = PtrID(t.user_id)
                 /\ now >= t.exp
                    => /\ ~VerifyJWT(t).valid
                       /\ out.aborted /\ opt.user_id = NilID)
    /\ [][\A p \in Procs :
            (CanCall(p) /\ calls'[p] # calls[p]
                /\ calls'[p].op \in {"GetMe", "Logout"})
            => /\ users' = users
               /\ refreshTokens' = refreshTokens
               /\ (calls'[p].response.error_key = "auth.invalid_token")
                     <=> now >= calls'[p].access.exp]_vars

\* A request to /auth/me with an unexpired access token of a deleted user
\* has passed the gate; the handler behind it found no user.
C23_Witness ==
    \E p \in Procs :
        /\ calls[p].op = "GetMe" /\ calls[p].pc = "done"
        /\ calls[p].access \in jwts
        /\ now < calls[p].access.exp
        /\ \A u \in users : u.id # calls[p].access.user_id
        /\ calls[p].response.error_key = "auth.user_not_found"
        /\ calls[p].response.status = 404

\* The hashes a users row can hold.
Hashes == {GenerateFromPassword(w) : w \in Passwords}

\* C24 as stated: no value Register, Login or the current-user lookup
\* returns depends on the password hash: each is the value returned for a
\* user that differs only in the hash.
C24_HashNeverReturned ==
    \A p \in Procs :
        (calls[p].pc = "done"
            /\ \/ calls[p].op \in {"Register", "Login"}
                  /\ calls[p].result.err = NoErr
               \/ calls[p].op = "GetMe" /\ calls[p].response.status = 200)
        => \A h \in Hashes :
              /\ [calls[p].result EXCEPT !.user.password = h]
                    = calls[p].result
              /\ GetUserFromContext(calls[p].user.id).user.id = calls[p].user.id
                 => [GetUserFromContext(calls[p].user.id).user
                        EXCEPT !.password = h]
                      = GetUserFromContext(calls[p].user.id).user

\* C24 as amended: no HTTP response depends on the password hash: the
\* answers of the register, login and current-user endpoints are the
\* answers given for a user that differs only in the hash, and their user
\* data is id, email and name.
C24_ResponsesWithoutHash ==
    \A p \in Procs :
        /\ (calls[p].pc = "done" /\ calls[p].op \in {"Register", "Login"})
           => /\ \A h \in Hashes :
                    AuthHandlerRegister(
                        [calls[p].result EXCEPT !.user.password = h])
                      = AuthHandlerRegister(calls[p].result)
              /\ DOMAIN AuthHandlerLogin(calls[p].result).user
                    = {"id", "email", "name"}
        /\ (calls[p].pc = "done" /\ calls[p].op = "GetMe")
           => /\ DOMAIN calls[p].response.user = {"id", "email", "name"}
              /\ calls[p].response.status = 200
                 => \A h \in Hashes :
                       calls[p].response.user
                         = UserResponse([calls[p].user EXCEPT !.password = h])

\* The current-user endpoint has answered 200 for a user whose row holds a
\* hash, and a Login of a registered user has returned.
C24_Witness ==
    \E p \in Procs, q \in Procs :
        /\ calls[p].op = "GetMe" /\ calls[p].pc = "done"
        /\ calls[p].response.status = 200
        /\ calls[p].user.password \in Hashes
        /\ calls[p].response.user = UserResponse(calls[p].user)
        /\ calls[q].op = "Login" /\ calls[q].pc = "done"
        /\ calls[q].result.err = NoErr
        /\ calls[q].result.user.password \in Hashes

\* C25: when the revoke statement of RefreshToken(t) fails the call goes on:
\* the failure changes no row and does not end the call, and the issue step
\* that follows returns a new pair and stores its row while the row of t
\* stays as it was, so an active t stays active beside the new token.
C25_RevokeFailureFailsOpen ==
    [][\A p \in Procs :
        /\ (calls[p].pc = "refresh_revoke" /\ calls'[p].revoke = "failed")
           => /\ calls'[p].pc = "issue"
              /\ calls'[p].result = NoResult
              /\ refreshTokens' = refreshTokens
        /\ (calls[p].revoke = "failed" /\ calls[p].pc = "issue"
               /\ calls'[p].pc = "done" /\ calls'[p].result.err = NoErr)
           => /\ calls'[p].result.pair.refresh_token # calls[p].token
              /\ \E r \in refreshTokens' \ refreshTokens :
                    /\ r.token = calls'[p].result.pair.refresh_token
                    /\ ~r.is_revoked /\ r.expires_at > now
              /\ \A r \in refreshTokens :
                    r.token = calls[p].token => r \in refreshTokens']_vars

\* RefreshToken(t) has returned a pair after its revoke failed, and both t
\* and the new refresh token are found by the lookup.
C25_Witness ==
    \E p \in Procs :
        /\ calls[p].op = "RefreshToken" /\ calls[p].pc = "done"
        /\ calls[p].revoke = "failed"
        /\ calls[p].result.err = NoErr
        /\ GetRefreshToken(calls[p].token) # {}
        /\ GetRefreshToken(calls[p].result.pair.refresh_token) # {}

\* C26: when RefreshToken(t) has revoked t, t is revoked from then on, so t
\* and its replacement are never both active; and when the issue step then
\* fails the call returns an error and no pair, and that step stores no row.
C26_RotationFailsSafe ==
    /\ [](\A p \in Procs :
             (calls[p].op = "RefreshToken" /\ calls[p].revoke = "ok")
             => /\ \A r \in refreshTokens :
                      r.token = calls[p].token => r.is_revoked
                /\ GetRefreshToken(calls[p].token) = {}
                /\ (calls[p].pc = "done" /\ calls[p].result.err # NoErr)
                   => calls[p].result.pair = NoPair)
    /\ [][\A p \in Procs :
            (calls[p].revoke = "ok" /\ calls[p].pc = "issue"
                /\ calls'[p].pc = "done" /\ calls'[p].result.err # NoErr)
            => refreshTokens' = refreshTokens]_vars

\* RefreshToken(t) has failed in its issue step after revoking t: t is
\* revoked and the user holds no active refresh token.
C26_Witness ==
    \E p \in Procs :
        /\ calls[p].op = "RefreshToken" /\ calls[p].pc = "done"
        /\ calls[p].revoke = "ok"
        /\ calls[p].result.err = RawError("failed to generate tokens")
        /\ \E r \in refreshTokens : r.token = calls[p].token /\ r.is_revoked
        /\ \A r \in refreshTokens :
              r.user_id = calls[p].user.id => r.is_revoked

\* C27: when Register has created the user and issuing the pair then fails,
\* Register returns an error with no pair and no user while the users row
\* stays; a Register of the same email after that is refused by the unique
\* constraint with ErrUserAlreadyExists, and Login with the email and
\* password finds the row and passes its check.
C27_RegisterNotAtomic ==
    /\ [](\A q \in Procs :
             (calls[q].op = "Register" /\ calls[q].pc = "done"
                 /\ calls[q].result.err = RawError("failed to generate tokens"))
             => /\ calls[q].result.pair = NoPair
                /\ calls[q].result.user = NoUser
                /\ calls[q].user \in users
                /\ calls[q].user.email = calls[q].email)
    /\ [][\A p \in Procs, q \in Procs :
            (calls[q].op = "Register" /\ calls[q].pc = "done"
                /\ calls[q].result.err = RawError("failed to generate tokens"))
            => /\ (\E n \in Names, w \in Passwords :
                      RegisterCreateUser(p, calls[q].email, n, w))
                  => /\ calls'[p].pc = "done"
                     /\ calls'[p].result = Failure(ErrUserAlreadyExists)
                     /\ users' = users
               /\ LoginGetUser(p, calls[q].email, calls[q].password)
                  => /\ calls'[p].pc = "issue"
                     /\ calls'[p].user = calls[q].user]_vars

\* One caller's Register failed after creating the user; the other's
\* Register of the same email was refused, the row still being the first's.
C27_Witness ==
    \E p \in Procs, q \in Procs :
        /\ calls[q].op = "Register" /\ calls[q].pc = "done"
        /\ calls[q].result.err = RawError("failed to generate tokens")
        /\ calls[q].user \in users
        /\ calls[p].op = "Register" /\ calls[p].pc = "done"
        /\ calls[p].email = calls[q].email
        /\ calls[p].result.err = ErrUserAlreadyExists
        /\ refreshTokens = {}

\* C28: no step of a Login or Register call changes or removes a
\* refresh_tokens row: the step in which the call returns its pair adds one
\* active row of the call's user beside the user's earlier ones, every other
\* step adds none, and a Login that has not succeeded has changed no row of
\* users or refresh_tokens.
C28_LoginRegisterKeepRows ==
    [][\A p \in Procs :
        (calls'[p] # calls[p] /\ calls'[p].op \in {"Login", "Register"})
        => LET new == refreshTokens' \ refreshTokens
               success == /\ calls'[p].pc = "done"
                          /\ calls'[p].result.err = NoErr
           IN  /\ refreshTokens \subseteq refreshTokens'
               /\ success
                  => /\ Cardinality(new) = 1
                     /\ \A r \in new :
                           /\ r.user_id = calls'[p].user.id
                           /\ r.token = calls'[p].result.pair.refresh_token
                           /\ ~r.is_revoked /\ r.expires_at > now
               /\ ~success => new = {}
               /\ (calls'[p].op = "Login" /\ ~success)
                  => users' = users /\ refreshTokens' = refreshTokens]_vars

\* After a Login the user holds two or more active refresh tokens.
C28_Witness ==
    \E p \in Procs :
        /\ calls[p].op = "Login" /\ calls[p].pc = "done"
        /\ calls[p].result.err = NoErr
        /\ Cardinality({r \in refreshTokens :
                           /\ r.user_id = calls[p].user.id
                           /\ ~r.is_revoked /\ r.expires_at > now}) >= 2

\* C29: a Logout request changes no state: the rows of users and
\* refresh_tokens are as before, so every refresh token of the user that
\* the lookup found before it finds after, and when the request is answered
\* 200 the access token it carried is still accepted.
C29_LogoutChangesNothing ==
    [][\A p \in Procs :
        (CanCall(p) /\ calls'[p] # calls[p] /\ calls'[p].op = "Logout")
        => /\ users' = users
           /\ refreshTokens' = refreshTokens
           /\ now' = now
           /\ \A r \in refreshTokens :
                 (r.user_id = calls'[p].access.user_id /\ ~r.is_revoked)
                 => r \in refreshTokens'
           /\ calls'[p].response.status = 200
              => /\ VerifyJWT(calls'[p].access).valid
                 /\ UserAuthMiddleware(EmptyString,
                                       Bearer(calls'[p].access)).next
                 /\ calls'[p].response.message = "Logged out successfully"
           /\ calls'[p].response.status \in {200, 401}]_vars

\* Logout was answered 200 and the user's refresh token is still found by
\* the lookup.
C29_Witness ==
    \E p \in Procs :
        /\ calls[p].op = "Logout" /\ calls[p].pc = "done"
        /\ calls[p].response.status = 200
        /\ \E r \in refreshTokens :
              /\ r.user_id = calls[p].access.user_id
              /\ GetRefreshToken(r.token) = {r}
        /\ VerifyJWT(calls[p].access).valid

====
